---- MODULE Spec2Model ----
(***************************************************************************)
(* A model of the Inoreader MCP adapter: the gateway client (client.py),  *)
(* the six tool operations (tools.py) and the pure helpers (utils.py).    *)
(*                                                                         *)
(* Text that the code inspects character by character (the login body,    *)
(* category identifiers) is a sequence of one-character strings.  Text    *)
(* that the code only compares as a whole or passes through (a response   *)
(* body compared with "OK", message texts) is a TLA+ string.              *)
(***************************************************************************)
EXTENDS Integers, Sequences, FiniteSets, TLC

(***************************** bounds *************************************)
\* longest article-id list given to mark_as_read (41 = three batches)
MaxIds == 41
\* lines in a login response body
MaxLines == 2
\* category entries of one stream item
MaxCats == 2
\* longest list given to chunk_list in the pure specification
MaxLen == 5
\* largest chunk size given to chunk_list in the pure specification
MaxChunk == 6
\* the clock stops MaxTime ticks after its start
MaxTime == 1

(************************* program constants ******************************)
\* tools.py:191  chunk_list(article_ids, 20)
BATCH_SIZE == 20
\* Config.CACHE_TTL (config.py is not part of the sources), in clock ticks
CACHE_TTL == 1

\* client.py:144  the tag mark_as_read applies
READ_TAG == <<"u","s","e","r","/","-","/","s","t","a","t","e","/","c","o","m",".","g","o","o","g","l","e","/","r","e","a","d">>
\* utils.py:22  the substring parse_article looks for
READ_MARK == <<"s","t","a","t","e","/","c","o","m",".","g","o","o","g","l","e","/","r","e","a","d">>
\* client.py:120  the default stream
READING_LIST == <<"u","s","e","r","/","-","/","s","t","a","t","e","/","c","o","m",".","g","o","o","g","l","e","/","r","e","a","d","i","n","g","-","l","i","s","t">>
\* client.py:49  the prefix of the token line
AUTH_PREFIX == <<"A","u","t","h","=">>

(*************************** input alphabets ******************************)
STARRED == <<"u","s","e","r","/","-","/","s","t","a","t","e","/","c","o","m",".","g","o","o","g","l","e","/","s","t","a","r","r","e","d">>
LABEL_READ == <<"R","e","a","d">>
LABEL_TECH == <<"u","s","e","r","/","-","/","l","a","b","e","l","/","T","e","c","h">>
L_SID == <<"S","I","D","=","s">>
L_AUTH_A == <<"A","u","t","h","=","t","A">>
L_AUTH_B == <<"A","u","t","h","=","t","B">>
L_AUTH_EMPTY == <<"A","u","t","h","=">>

\* sequences over S of length at most n
SeqUpTo(S, n) == UNION {[1..k -> S] : k \in 0..n}

Min(a, b) == IF a <= b THEN a ELSE b

(***************************** Python text ********************************)
\* s.startswith(p)
StartsWith(s, p) == Len(s) >= Len(p) /\ SubSeq(s, 1, Len(p)) = p

\* s[k:]  (k a non-negative offset)
DropPrefix(s, k) == SubSeq(s, k + 1, Len(s))

RECURSIVE FindFrom(_, _, _)
\* does sub occur in s at an offset >= k (0-based), scanning left to right
FindFrom(sub, s, k) ==
    IF k + Len(sub) > Len(s) THEN FALSE
    ELSE IF SubSeq(s, k + 1, k + Len(sub)) = sub THEN TRUE
    ELSE FindFrom(sub, s, k + 1)

\* sub in s
Contains(sub, s) == FindFrom(sub, s, 0)

RECURSIVE SplitFrom(_, _, _)
\* text.split("\n"): cur is the line being collected, i the next position
SplitFrom(text, i, cur) ==
    IF i > Len(text) THEN <<cur>>
    ELSE IF text[i] = "\n" THEN <<cur>> \o SplitFrom(text, i + 1, <<>>)
    ELSE SplitFrom(text, i + 1, Append(cur, text[i]))

SplitLines(text) == SplitFrom(text, 1, <<>>)

RECURSIVE JoinLines(_)
\* "\n".join(lines): how the login bodies of the model are built
JoinLines(lines) ==
    IF lines = <<>> THEN <<>>
    ELSE IF Len(lines) = 1 THEN lines[1]
    ELSE lines[1] \o <<"\n">> \o JoinLines(Tail(lines))

(****************************** utils.py **********************************)
\* lst[a:b] for 0 <= a <= b
Slice(lst, a, b) == SubSeq(lst, a + 1, Min(b, Len(lst)))

RECURSIVE ChunksFrom(_, _, _)
\* the comprehension of chunk_list from offset i on: i in range(i, len, c)
ChunksFrom(lst, c, i) ==
    IF i >= Len(lst) THEN <<>>
    ELSE <<Slice(lst, i, i + c)>> \o ChunksFrom(lst, c, i + c)

\* a chunk_list that drops the short last chunk
chunk_list_dropTail(lst, c) ==
    LET all == ChunksFrom(lst, c, 0)
    IN  IF all # <<>> /\ Len(all[Len(all)]) < c
        THEN SubSeq(all, 1, Len(all) - 1) ELSE all

chunk_list(lst, c) == ChunksFrom(lst, c, 0)

\* A category entry of a stream item: a plain string (isdict = FALSE, s) or
\* an object (isdict = TRUE) with an optional id and a label.
CatStr(s) == [s |-> s, isdict |-> FALSE, hasId |-> FALSE, id |-> <<>>, label |-> <<>>]
CatObj(id, label) == [s |-> <<>>, isdict |-> TRUE, hasId |-> TRUE, id |-> id, label |-> label]
CatObjNoId(label) == [s |-> <<>>, isdict |-> TRUE, hasId |-> FALSE, id |-> <<>>, label |-> label]

\* the identifier taken from the label instead of the id
CatIdentFromLabel(cat) == IF cat.isdict THEN cat.label ELSE cat.s

\* cat.get("id", "") if isinstance(cat, dict) else str(cat)
CatIdent(cat) == IF cat.isdict THEN (IF cat.hasId THEN cat.id ELSE <<>>) ELSE cat.s

\* cat.get("label", "") if isinstance(cat, dict) else str(cat)
CatLabel(cat) == IF cat.isdict THEN cat.label ELSE cat.s

RECURSIVE AnyRead(_)
\* any("state/com.google/read" in ident(cat) for cat in categories)
AnyRead(cats) ==
    IF cats = <<>> THEN FALSE
    ELSE IF Contains(READ_MARK, CatIdent(cats[1])) THEN TRUE
    ELSE AnyRead(Tail(cats))

\* parse_article: the fields derived from the categories, and the summary
\* ("" stands for both None and the empty text: the code only tests it for
\* truth).  Tag stripping and truncation of the summary are not modelled.
parse_article(item) ==
    [categories |-> [i \in DOMAIN item.categories |-> CatLabel(item.categories[i])],
     is_read    |-> AnyRead(item.categories),
     summary    |-> IF item.hasSummary THEN item.summary ELSE ""]

\* the status glyph of format_article_list: a check mark or a bullet
GLYPH_READ == "check"
GLYPH_UNREAD == "bullet"
StatusGlyph(article) == IF article.is_read THEN GLYPH_READ ELSE GLYPH_UNREAD


(************************** Python values *********************************)
\* What _request returns: a str (raw text, or a JSON string), a dict or a
\* list.  A dict is known by whether it holds the key its caller reads
\* (haskey) and the array under that key (payload).  t = "invalid" is a body
\* announced as JSON that resp.json() cannot decode.
\* (Every record of this module lists its fields in the order TLC keeps them,
\* the order in which the names first occur in the module.)
PyStr(s) == [s |-> s, t |-> "str", haskey |-> FALSE, payload |-> <<>>]
PyDict(haskey, payload) == [s |-> "", t |-> "dict", haskey |-> haskey, payload |-> payload]
PyList == [s |-> "", t |-> "list", haskey |-> FALSE, payload |-> <<>>]
PyInvalid == [s |-> "", t |-> "invalid", haskey |-> FALSE, payload |-> <<>>]

\* str | None
PyNone == [s |-> <<>>, none |-> TRUE]
PySome(s) == [s |-> s, none |-> FALSE]
\* not x
Falsy(x) == x.none \/ x.s = <<>>

\* an HTTP response: status, whether Content-Type holds application/json, body
Resp(status, json, val) == [status |-> status, json |-> json, val |-> val]

(****************************** inputs ************************************)
\* items of a stream
MaxItems == 2

Item(cats, hasContent, content, hasSummary, summary) ==
    [categories |-> cats, summary |-> summary, hasSummary |-> hasSummary,
     hasContent |-> hasContent, content |-> content]

StreamItems ==
    {Item(c, FALSE, "", FALSE, "") :
        c \in {<<>>, <<CatStr(READ_TAG)>>, <<CatStr(READING_LIST)>>}}

\* an absent key, an empty text, a text
OptionalText(t) == {<<FALSE, "">>, <<TRUE, "">>, <<TRUE, t>>}

ContentItems ==
    {Item(<<>>, c[1], c[2], s[1], s[2]) :
        c \in OptionalText("full"), s \in OptionalText("sum")}

\* get_content asks for one id: no item, or the item
ContentPayloads == {<<>>} \cup {<<it>> : it \in ContentItems}

Subscriptions == {[hasTitle |-> TRUE, title |-> "Blog"], [hasTitle |-> FALSE, title |-> ""]}

UnreadCounts == {[feed |-> f, count |-> c] : f \in BOOLEAN, c \in {0, 3}}

\* the responses an endpoint whose JSON body carries an array can give,
\* payloads being the arrays
ReadResponses(payloads) ==
    {Resp(500, FALSE, PyStr("err")), Resp(200, FALSE, PyStr("")),
     Resp(200, TRUE, PyDict(FALSE, <<>>)), Resp(200, TRUE, PyList),
     Resp(200, TRUE, PyInvalid)}
    \cup {Resp(200, TRUE, PyDict(TRUE, p)) : p \in payloads}

\* the responses of edit-tag
EditResponses ==
    {Resp(500, FALSE, PyStr("err")), Resp(200, FALSE, PyStr("OK")),
     Resp(200, FALSE, PyStr("")), Resp(200, TRUE, PyStr("OK")),
     Resp(200, TRUE, PyDict(FALSE, <<>>))}

LoginLines == {L_SID, L_AUTH_A, L_AUTH_B, L_AUTH_EMPTY}

\* the responses of ClientLogin: a status and a body of lines
LoginResponses ==
    {[status |-> 200, body |-> JoinLines(ls)] : ls \in SeqUpTo(LoginLines, MaxLines)}
    \cup {[status |-> 401, body |-> JoinLines(ls)] : ls \in SeqUpTo(LoginLines, 1)}

NoLogin == [status |-> 0, body |-> <<>>]

Ops == {"list_feeds", "list_articles", "search_articles", "get_content",
        "mark_as_read", "get_stats"}

\* the arguments of a tool call; an operation reads only its own
Args(ids, hasDays, days, hasFeed, unread) ==
    [ids |-> ids, hasDays |-> hasDays, days |-> days, hasFeed |-> hasFeed,
     unread_only |-> unread, article_id |-> 0]

NoArgs == Args(<<>>, FALSE, 0, FALSE, FALSE)

DaysArgs == {<<FALSE, 0>>, <<TRUE, 0>>, <<TRUE, 1>>, <<TRUE, 7>>}

ArgsOf(o) ==
    CASE o = "mark_as_read" ->
            {Args([i \in 1..n |-> i], FALSE, 0, FALSE, FALSE) : n \in 0..MaxIds}
      [] o = "list_articles" ->
            {Args(<<>>, d[1], d[2], f, u) : d \in DaysArgs, f \in BOOLEAN, u \in BOOLEAN}
      [] o = "search_articles" ->
            {Args(<<>>, d[1], d[2], FALSE, FALSE) : d \in DaysArgs}
      [] o = "get_content" -> {[NoArgs EXCEPT !.article_id = 7]}
      [] OTHER -> {NoArgs}


(******************************* state ************************************)
VARIABLES
    pc,            \* "idle", "auth" (session made, login pending), "body", "done"
    op,            \* the tool operation being served
    args,          \* its arguments
    session,       \* self.session: "none", "open" or "closed"
    auth_token,    \* self.auth_token
    cache,         \* self.cache, the TTLCache of this client instance
    login,         \* the ClientLogin response, until the next step of the call
    netlog,        \* the _request round trips of this invocation, in order
    idx,           \* mark_as_read: the chunks handled so far
    success_count, \* mark_as_read: success_count
    exc,           \* the exception that reached the except clause, or "none"
    result,        \* what the tool call gave its caller
    now,           \* the clock
    subStoredAt,   \* history: when a subscription list was last stored, -1 if never
    pin,           \* pure specifications: the input
    pout,          \* pure specifications: the output
    pstage         \* pure specifications: "in", then the functions applied

mainVars == <<pc, op, args, session, auth_token, cache, login, netlog, idx,
              success_count, exc, result, now, subStoredAt>>
pureVars == <<pin, pout, pstage>>
vars == <<pc, op, args, session, auth_token, cache, login, netlog, idx,
          success_count, exc, result, now, subStoredAt, pin, pout, pstage>>

\* tests/test_utils.py:21  an epoch second of the test data; the clock starts here
T0 == 1700000000
\* utils.py:57  timedelta(days=days): the seconds of a day
DAY == 86400

EmptyCache == [has |-> FALSE, at |-> 0, value |-> <<>>]
NoResult == [n |-> 0, k |-> 0, lines |-> <<>>, kind |-> "none", head |-> "", detail |-> ""]
Text(head, k, n, lines) ==
    [n |-> n, k |-> k, lines |-> lines, kind |-> "text", head |-> head, detail |-> ""]

\* the state a fresh process is in, between tool calls
MainInit ==
    /\ pc = "idle"
    /\ op = "none"
    /\ args = NoArgs
    /\ session = "none"
    /\ auth_token = PyNone
    /\ cache = EmptyCache
    /\ login = NoLogin
    /\ netlog = <<>>
    /\ idx = 0
    /\ success_count = 0
    /\ exc = "none"
    /\ result = NoResult
    /\ now = T0
    /\ subStoredAt = -1

PureIdle == pin = <<>> /\ pout = <<>> /\ pstage = "off"

Init == MainInit /\ PureIdle

(***************************** client.py **********************************)
RECURSIVE FirstAuthLine(_, _)
\* the loop of _authenticate: the token of the first line that starts with
\* "Auth=", or tok (the token so far) when there is none
FirstAuthLine(lines, tok) ==
    IF lines = <<>> THEN tok
    ELSE IF StartsWith(lines[1], AUTH_PREFIX)
         THEN PySome(DropPrefix(lines[1], 5))
         ELSE FirstAuthLine(Tail(lines), tok)

RECURSIVE LastAuthLine(_, _)
\* the loop without its break: the last matching line wins
LastAuthLine(lines, tok) ==
    IF lines = <<>> THEN tok
    ELSE IF StartsWith(lines[1], AUTH_PREFIX)
         THEN LastAuthLine(Tail(lines), PySome(DropPrefix(lines[1], 5)))
         ELSE LastAuthLine(Tail(lines), tok)

ParseAuthTokenNoBreak(text, tok) == LastAuthLine(SplitLines(text), tok)

\* for line in text.split("\n"): if line.startswith("Auth="): ...; break
ParseAuthToken(text, tok) == FirstAuthLine(SplitLines(text), tok)

\* _authenticate on a login response, self.auth_token being tok:
\* the exception raised ("none" if none) and the token afterwards
authenticate(resp, tok) ==
    IF resp.status # 200
    THEN [exc |-> "Authentication failed", token |-> tok]
    ELSE LET t == ParseAuthToken(resp.body, tok)
         IN  [exc |-> IF Falsy(t) THEN "No auth token received" ELSE "none",
              token |-> t]

\* _request on a response: the exception raised ("none" if none) and the value
request(resp) ==
    IF resp.status # 200 THEN [val |-> PyNone, exc |-> "API request failed"]
    ELSE IF resp.json /\ resp.val.t = "invalid"
         THEN [val |-> PyNone, exc |-> "JSONDecodeError"]
         ELSE [val |-> resp.val, exc |-> "none"]

\* result.get(key, []) on what _request returned
DictGet(val) ==
    IF val.t # "dict" THEN [val |-> <<>>, exc |-> "AttributeError"]
    ELSE [val |-> IF val.haskey THEN val.payload ELSE <<>>, exc |-> "none"]

\* cache_key in self.cache, TTLCache dropping an entry ttl after it was stored
CacheHit(c, t) == c.has /\ t < c.at + CACHE_TTL

\* result == "OK" but any non-empty value counts
mark_ok_truthy(val) == ~(val.t = "str" /\ val.s = "")

\* client.mark_as_read: result == "OK"
mark_ok(val) == val.t = "str" /\ val.s = "OK"

\* isinstance(result, str) in get_stream_contents and search
IsStr(val) == val.t = "str"

\* days_to_timestamp(days) at clock t
days_to_timestamp(days, t) == t - days * DAY

\* a record of one _request round trip: what was sent, the answer, the
\* clock, and (history) when a subscription list had last been stored
Trip(endpoint, ids, hasOt, ot, xt, resp) ==
    [t |-> now, ids |-> ids, resp |-> resp, endpoint |-> endpoint,
     hasOt |-> hasOt, ot |-> ot, xt |-> xt, storedBefore |-> subStoredAt]


(****************************** tools.py **********************************)
ErrorPrefix(o) ==
    CASE o = "list_feeds"      -> "Error listing feeds: "
      [] o = "list_articles"   -> "Error listing articles: "
      [] o = "search_articles" -> "Error searching articles: "
      [] o = "get_content"     -> "Error getting article content: "
      [] o = "mark_as_read"    -> "Error marking articles as read: "
      [] o = "get_stats"       -> "Error getting stats: "

\* an except clause that names one exception class and lets the others pass
ExceptNarrow(o, e) ==
    IF e = "API request failed"
    THEN [n |-> 0, k |-> 0, lines |-> <<>>, kind |-> "text",
          head |-> ErrorPrefix(o), detail |-> e]
    ELSE [n |-> 0, k |-> 0, lines |-> <<>>, kind |-> "raise", head |-> "", detail |-> e]

\* except Exception as e: return f"Error ...: {str(e)}"
Except(o, e) ==
    [n |-> 0, k |-> 0, lines |-> <<>>, kind |-> "text",
     head |-> ErrorPrefix(o), detail |-> e]

\* the three messages of mark_as_read for success_count k of n ids
MarkedMessage(k, n) ==
    IF k = n THEN Text("Successfully marked {k} article(s) as read.", k, n, <<>>)
    ELSE IF k > 0 THEN Text("Marked {k} out of {n} articles as read.", k, n, <<>>)
    ELSE Text("Failed to mark articles as read.", 0, n, <<>>)

\* the body section of get_content for an item and its parsed article
ContentBody(item, article) ==
    IF item.hasContent
    THEN IF item.content # "" THEN <<"---", item.content>> ELSE <<>>
    ELSE IF article.summary # "" THEN <<"---", article.summary>>
    ELSE <<"---", "No content available for this article.">>

RECURSIVE StatsTotal(_)
\* the loop of get_stats: the sum of the counts > 0 of the feed entries
StatsTotal(counts) ==
    IF counts = <<>> THEN 0
    ELSE (IF counts[1].count > 0 /\ counts[1].feed THEN counts[1].count ELSE 0)
         + StatsTotal(Tail(counts))

\* The tool call ends: the with block is left, so __aexit__ closes the
\* session, and the text (or the except clause's text when e was raised) is
\* returned.
Done(e, res, trips) ==
    /\ pc' = "done"
    /\ exc' = e
    /\ result' = IF e # "none" THEN Except(op, e) ELSE res
    /\ session' = IF session # "none" THEN "closed" ELSE session
    /\ netlog' = netlog \o trips
    /\ login' = NoLogin

\* A tool is called.  mark_as_read with no ids returns before any client is
\* made; every other call constructs a client (__init__) and enters it:
\* __aenter__ makes the session and starts _authenticate.
Invoke(o, a) ==
    /\ pc = "idle"
    /\ op' = o
    /\ args' = a
    /\ IF o = "mark_as_read" /\ a.ids = <<>>
       THEN /\ pc' = "done"
            /\ result' = Text("No article IDs provided.", 0, 0, <<>>)
            /\ UNCHANGED <<session, auth_token, cache>>
       ELSE /\ pc' = "auth"
            /\ session' = "open"
            /\ auth_token' = PyNone
            /\ cache' = EmptyCache
            /\ result' = NoResult
    /\ UNCHANGED <<login, netlog, idx, success_count, exc, now, subStoredAt>>
    /\ UNCHANGED pureVars

\* The login response arrives.  When _authenticate raises, __aenter__ has
\* not returned, so the with statement does not call __aexit__: the except
\* clause of the tool runs with the session still open.
Authenticate(resp) ==
    /\ pc = "auth"
    /\ LET a == authenticate(resp, auth_token)
       IN  /\ auth_token' = a.token
           /\ login' = resp
           /\ exc' = a.exc
           /\ IF a.exc # "none"
              THEN pc' = "done" /\ result' = Except(op, a.exc)
              ELSE pc' = "body" /\ result' = result
    /\ UNCHANGED <<op, args, session, cache, netlog, idx, success_count, now, subStoredAt>>
    /\ UNCHANGED pureVars

\* list_feeds, with get_subscription_list inlined.  The listing text
\* (parse_feed, the sort, format_feed_list) is reduced to the feed count.
ListFeeds(resp) ==
    /\ pc = "body" /\ op = "list_feeds"
    /\ IF CacheHit(cache, now)
       THEN /\ Done("none",
                    IF cache.value = <<>>
                    THEN Text("No feeds found in your Inoreader account.", 0, 0, <<>>)
                    ELSE Text("Found {n} feeds:", 0, Len(cache.value), <<>>),
                    <<>>)
            /\ UNCHANGED <<cache, subStoredAt>>
       ELSE LET r    == request(resp)
                g    == DictGet(r.val)
                trip == <<Trip("subscription/list", <<>>, FALSE, 0, FALSE, resp)>>
            IN  IF r.exc # "none"
                THEN Done(r.exc, NoResult, trip) /\ UNCHANGED <<cache, subStoredAt>>
                ELSE IF g.exc # "none"
                THEN Done(g.exc, NoResult, trip) /\ UNCHANGED <<cache, subStoredAt>>
                ELSE /\ cache' = [has |-> TRUE, at |-> now, value |-> g.val]
                     /\ subStoredAt' = now
                     /\ Done("none",
                             IF g.val = <<>>
                             THEN Text("No feeds found in your Inoreader account.", 0, 0, <<>>)
                             ELSE Text("Found {n} feeds:", 0, Len(g.val), <<>>),
                             trip)
    /\ UNCHANGED <<op, args, auth_token, idx, success_count, now>>
    /\ UNCHANGED pureVars

\* what list_articles and search_articles do with the stream they fetched:
\* get_stream_contents / search turn a str into {"items": []}; the tool
\* reads "items", parses each and renders the status glyphs
StreamResult(resp, emptyHead, foundHead, trip) ==
    LET r   == request(resp)
        val == IF r.exc = "none" /\ IsStr(r.val) THEN PyDict(TRUE, <<>>) ELSE r.val
        g   == DictGet(val)
    IN  IF r.exc # "none" THEN Done(r.exc, NoResult, trip)
        ELSE IF g.exc # "none" THEN Done(g.exc, NoResult, trip)
        ELSE LET articles == [i \in DOMAIN g.val |-> parse_article(g.val[i])]
             IN  IF articles = <<>>
                 THEN Done("none", Text(emptyHead, 0, 0, <<>>), trip)
                 ELSE Done("none",
                           Text(foundHead, 0, Len(articles),
                                [i \in DOMAIN articles |-> StatusGlyph(articles[i])]),
                           trip)

\* newer_than = days_to_timestamp(days) if days else None
NewerThan(a) ==
    IF a.hasDays /\ a.days # 0
    THEN [none |-> FALSE, v |-> days_to_timestamp(a.days, now)]
    ELSE [none |-> TRUE, v |-> 0]

\* list_articles with get_stream_contents inlined ("n" is not modelled)
ListArticles(resp) ==
    /\ pc = "body" /\ op = "list_articles"
    /\ LET nt == NewerThan(args)
           ot == ~nt.none /\ nt.v # 0
       IN  StreamResult(resp, "No articles found", "Found {n} articles",
               <<Trip(IF args.hasFeed THEN "stream/contents/{feed}"
                      ELSE "stream/contents/user/-/state/com.google/reading-list",
                      <<>>, ot, IF ot THEN nt.v ELSE 0, args.unread_only, resp)>>)
    /\ UNCHANGED <<op, args, auth_token, cache, idx, success_count, now, subStoredAt>>
    /\ UNCHANGED pureVars

\* search_articles with search inlined ("q" and "n" are not modelled)
SearchArticles(resp) ==
    /\ pc = "body" /\ op = "search_articles"
    /\ LET nt == NewerThan(args)
           ot == ~nt.none /\ nt.v # 0
       IN  StreamResult(resp, "No articles found matching", "Found {n} articles matching",
               <<Trip("stream/contents/user/-/state/com.google/search",
                      <<>>, ot, IF ot THEN nt.v ELSE 0, FALSE, resp)>>)
    /\ UNCHANGED <<op, args, auth_token, cache, idx, success_count, now, subStoredAt>>
    /\ UNCHANGED pureVars

\* get_content with get_stream_item_contents inlined (the id list is never empty)
GetContent(resp) ==
    /\ pc = "body" /\ op = "get_content"
    /\ LET r    == request(resp)
           g    == DictGet(r.val)
           trip == <<Trip("stream/items/contents", <<args.article_id>>, FALSE, 0, FALSE, resp)>>
       IN  IF r.exc # "none" THEN Done(r.exc, NoResult, trip)
           ELSE IF g.exc # "none" THEN Done(g.exc, NoResult, trip)
           ELSE IF g.val = <<>>
           THEN Done("none", Text("Article with ID {id} not found.", args.article_id, 0, <<>>), trip)
           ELSE LET item    == g.val[1]
                    article == parse_article(item)
                IN  Done("none",
                         Text("article", 0, 0,
                              <<IF article.is_read THEN "Status: Read" ELSE "Status: Unread">>
                              \o ContentBody(item, article)),
                         trip)
    /\ UNCHANGED <<op, args, auth_token, cache, idx, success_count, now, subStoredAt>>
    /\ UNCHANGED pureVars

\* One turn of the loop of mark_as_read: client.mark_as_read(chunk) for the
\* next chunk; after the last chunk the message is made and returned.
MarkBatch(resp) ==
    /\ pc = "body" /\ op = "mark_as_read"
    /\ LET chunks == chunk_list(args.ids, BATCH_SIZE)
           chunk  == chunks[idx + 1]
           r      == request(resp)
           trip   == <<Trip("edit-tag", chunk, FALSE, 0, FALSE, resp)>>
           sc     == IF r.exc = "none" /\ mark_ok(r.val)
                     THEN success_count + Len(chunk) ELSE success_count
       IN  IF r.exc # "none"
           THEN Done(r.exc, NoResult, trip) /\ UNCHANGED <<idx, success_count>>
           ELSE /\ idx' = idx + 1
                /\ success_count' = sc
                /\ IF idx + 1 >= Len(chunks)
                   THEN Done("none", MarkedMessage(sc, Len(args.ids)), trip)
                   ELSE /\ netlog' = netlog \o trip
                        /\ login' = NoLogin
                        /\ UNCHANGED <<pc, exc, result, session>>
    /\ UNCHANGED <<op, args, auth_token, cache, now, subStoredAt>>
    /\ UNCHANGED pureVars

\* get_stats with get_unread_count inlined; the top-10 listing is reduced
\* to the total
GetStats(resp) ==
    /\ pc = "body" /\ op = "get_stats"
    /\ LET r    == request(resp)
           g    == DictGet(r.val)
           trip == <<Trip("unread-count", <<>>, FALSE, 0, FALSE, resp)>>
       IN  IF r.exc # "none" THEN Done(r.exc, NoResult, trip)
           ELSE IF g.exc # "none" THEN Done(g.exc, NoResult, trip)
           ELSE Done("none", Text("Inoreader Statistics", StatsTotal(g.val), 0, <<>>), trip)
    /\ UNCHANGED <<op, args, auth_token, cache, idx, success_count, now, subStoredAt>>
    /\ UNCHANGED pureVars

\* The caller has the text; the client object and the locals are dropped.
\* Nothing of the client outlives the call: tools.py makes a new
\* InoreaderClient() in every tool.
Return ==
    /\ pc = "done"
    /\ pc' = "idle"
    /\ op' = "none"
    /\ args' = NoArgs
    /\ session' = "none"
    /\ auth_token' = PyNone
    /\ cache' = EmptyCache
    /\ login' = NoLogin
    /\ netlog' = <<>>
    /\ idx' = 0
    /\ success_count' = 0
    /\ exc' = "none"
    /\ result' = NoResult
    /\ UNCHANGED <<now, subStoredAt>>
    /\ UNCHANGED pureVars

\* Time passes between tool calls.  (The code reads the clock once per
\* call, so time passing inside a call adds no behaviour.)
Tick ==
    /\ pc = "idle"
    /\ now < T0 + MaxTime
    /\ now' = now + 1
    /\ UNCHANGED <<pc, op, args, session, auth_token, cache, login, netlog, idx,
                   success_count, exc, result, subStoredAt>>
    /\ UNCHANGED pureVars

Next ==
    \/ \E o \in Ops : \E a \in ArgsOf(o) : Invoke(o, a)
    \/ \E resp \in LoginResponses : Authenticate(resp)
    \/ \E resp \in ReadResponses(SeqUpTo(Subscriptions, MaxItems)) : ListFeeds(resp)
    \/ \E resp \in ReadResponses(SeqUpTo(StreamItems, MaxItems)) : ListArticles(resp)
    \/ \E resp \in ReadResponses(SeqUpTo(StreamItems, MaxItems)) : SearchArticles(resp)
    \/ \E resp \in ReadResponses(ContentPayloads) : GetContent(resp)
    \/ \E resp \in EditResponses : MarkBatch(resp)
    \/ \E resp \in ReadResponses(SeqUpTo(UnreadCounts, MaxItems)) : GetStats(resp)
    \/ Return
    \/ Tick

Spec == Init /\ [][Next]_vars


(******************* the pure functions on their own **********************)
\* the lists given to chunk_list: over two values, and 1..n
ChunkInputs ==
    {[lst |-> l, c |-> c] :
        l \in SeqUpTo(1..2, MaxLen) \cup {[i \in 1..n |-> i] : n \in 0..MaxLen},
        c \in 1..MaxChunk}

InitChunk == MainInit /\ pin \in ChunkInputs /\ pout = <<>> /\ pstage = "in"

ApplyChunkList ==
    /\ pstage = "in"
    /\ pout' = chunk_list(pin.lst, pin.c)
    /\ pstage' = "chunked"
    /\ UNCHANGED pin
    /\ UNCHANGED mainVars

NextChunk == ApplyChunkList

SpecChunk == InitChunk /\ [][NextChunk]_vars

\* the category entries an item is made of
CatEntries ==
    {CatStr(READ_TAG), CatStr(READING_LIST), CatStr(STARRED), CatStr(LABEL_READ),
     CatObj(READ_TAG, LABEL_READ), CatObj(READING_LIST, LABEL_TECH),
     CatObj(LABEL_TECH, LABEL_READ), CatObj(LABEL_TECH, READ_TAG),
     CatObjNoId(LABEL_READ)}

InitParse ==
    /\ MainInit
    /\ pin \in {Item(c, FALSE, "", FALSE, "") : c \in SeqUpTo(CatEntries, MaxCats)}
    /\ pout = <<>>
    /\ pstage = "in"

ApplyParseArticle ==
    /\ pstage = "in"
    /\ pout' = [article |-> parse_article(pin), glyph |-> ""]
    /\ pstage' = "parsed"
    /\ UNCHANGED pin
    /\ UNCHANGED mainVars

\* the status of one entry of format_article_list
ApplyFormat ==
    /\ pstage = "parsed"
    /\ pout' = [pout EXCEPT !.glyph = StatusGlyph(pout.article)]
    /\ pstage' = "formatted"
    /\ UNCHANGED pin
    /\ UNCHANGED mainVars

NextParse == ApplyParseArticle \/ ApplyFormat

SpecParse == InitParse /\ [][NextParse]_vars


(****************************** claims ************************************)
\* the tool call has ended and every _request of it was answered 200
AllAnswered200 ==
    /\ netlog # <<>>
    /\ \A i \in DOMAIN netlog : netlog[i].resp.status = 200

\* an edit-tag response that makes client.mark_as_read return True
OkResponse(resp) == resp.status = 200 /\ resp.val.t = "str" /\ resp.val.s = "OK"

\* the number of batches of n ids, and the size of batch i
BatchCount(n) == (n + BATCH_SIZE - 1) \div BATCH_SIZE
BatchSize(n, i) == IF i < BatchCount(n) THEN BATCH_SIZE ELSE n - BATCH_SIZE * (BatchCount(n) - 1)

RECURSIVE OkTally(_, _)
\* the ids of the batches 1..i whose response was a success
OkTally(n, i) ==
    IF i = 0 THEN 0
    ELSE OkTally(n, i - 1) + (IF OkResponse(netlog[i].resp) THEN BatchSize(n, i) ELSE 0)

C2_PartialIsCounted ==
    (/\ pc = "done" /\ op = "mark_as_read"
     /\ \E i, j \in DOMAIN netlog :
            i < j /\ OkResponse(netlog[i].resp) /\ ~OkResponse(netlog[j].resp)) =>
        /\ result.kind = "text"
        /\ result.head = "Marked {k} out of {n} articles as read."
        /\ result.k = OkTally(Len(args.ids), Len(netlog))

\* C3: a finished tool call that made a session has closed it.
C3_SessionReleased ==
    (pc = "done" /\ session # "none") => session = "closed"

\* C4: a finished tool call has returned a text, never raised; and when a
\* failure was raised inside it (login refused, token missing, a request
\* answered other than 200, an undecodable body, a value of the wrong shape),
\* the text is the operation's error prefix followed by the failure's detail.
C4_ErrorsBecomeText ==
    pc = "done" =>
        /\ result.kind = "text"
        /\ exc # "none" => (result.head = ErrorPrefix(op) /\ result.detail = exc)
        /\ (login # NoLogin /\ login.status # 200) =>
               (result.head = ErrorPrefix(op) /\ result.detail = "Authentication failed")
        /\ (netlog # <<>> /\ netlog[Len(netlog)].resp.status # 200) =>
               (result.head = ErrorPrefix(op) /\ result.detail = "API request failed")
        /\ (netlog # <<>> /\ netlog[Len(netlog)].resp.status = 200
              /\ netlog[Len(netlog)].resp.val.t = "list") =>
               (result.head = ErrorPrefix(op) /\ result.detail = "AttributeError")

\* C4 witness: get_stats was answered a JSON list; the text is its error text
C4_Witness ==
    /\ pc = "done" /\ op = "get_stats"
    /\ netlog # <<>> /\ netlog[1].resp.val.t = "list"
    /\ exc = "AttributeError"
    /\ result.kind = "text" /\ result.head = "Error getting stats: "


\* C5: a subscription/list request goes out only on a miss: when no list
\* was stored before, or the TTL has passed since the last one was stored.
C5_CachedAcrossCalls ==
    \A i \in DOMAIN netlog :
        netlog[i].endpoint = "subscription/list" =>
            \/ netlog[i].storedBefore = -1
            \/ netlog[i].t >= netlog[i].storedBefore + CACHE_TTL

\* the lines of the login body
LoginBodyLines == SplitLines(login.body)
\* _authenticate has run on a login response
Authenticated == login # NoLogin /\ pc \in {"body", "done"}
\* _authenticate failed with detail d: the tool call ended there, with no
\* usable token and no API request sent
AuthFailedWith(d) ==
    /\ pc = "done" /\ exc = d
    /\ result.head = ErrorPrefix(op) /\ result.detail = d
    /\ Falsy(auth_token)
    /\ netlog = <<>>
\* _authenticate succeeded and set the token tok
AuthSucceededWith(tok) ==
    pc = "body" /\ exc = "none" /\ auth_token = PySome(tok)

\* a line "Auth=<token>" with a token
IsTokenLine(l) == StartsWith(l, AUTH_PREFIX) /\ Len(l) > Len(AUTH_PREFIX)
\* a line that starts with "Auth="
IsAuthLine(l) == StartsWith(l, AUTH_PREFIX)

\* C6 as stated: a status other than 200 fails with the authentication
\* error; 200 without a line Auth=<token> fails with the missing-token
\* error; 200 with such a line succeeds with the token of the first such
\* line.  A failure leaves no token and sends no API request.
C6_ThreeOutcomes ==
    Authenticated =>
        LET ls == LoginBodyLines
        IN  IF login.status # 200 THEN AuthFailedWith("Authentication failed")
            ELSE IF ~\E i \in DOMAIN ls : IsTokenLine(ls[i])
            THEN AuthFailedWith("No auth token received")
            ELSE \E i \in DOMAIN ls :
                    /\ IsTokenLine(ls[i])
                    /\ \A j \in 1..(i - 1) : ~IsTokenLine(ls[j])
                    /\ AuthSucceededWith(SubSeq(ls[i], 6, Len(ls[i])))

\* C6 amended: the line that decides is the first line that starts with
\* "Auth=", with or without text after the prefix.  A status other than 200
\* fails with the authentication error; 200 with no such line, or with
\* nothing after the prefix of the first such line, fails with the
\* missing-token error; otherwise the call succeeds with the text after the
\* prefix of that line as the token.  A failure leaves no usable token and
\* sends no API request.
C6_AuthOutcomes ==
    Authenticated =>
        LET ls == LoginBodyLines
        IN  IF login.status # 200 THEN AuthFailedWith("Authentication failed")
            ELSE IF ~\E i \in DOMAIN ls : IsAuthLine(ls[i])
            THEN AuthFailedWith("No auth token received")
            ELSE \E i \in DOMAIN ls :
                    /\ IsAuthLine(ls[i])
                    /\ \A j \in 1..(i - 1) : ~IsAuthLine(ls[j])
                    /\ IF Len(ls[i]) = Len(AUTH_PREFIX)
                       THEN AuthFailedWith("No auth token received")
                       ELSE AuthSucceededWith(SubSeq(ls[i], 6, Len(ls[i])))

\* C6 witness: a 200 body with two token lines; the first one's token is set
C6_Witness ==
    /\ pc = "body" /\ login.status = 200
    /\ login.body = JoinLines(<<L_AUTH_A, L_AUTH_B>>)
    /\ auth_token = PySome(<<"t", "A">>)

\* the operations that read structured data
ReadOps == {"list_feeds", "list_articles", "search_articles", "get_content", "get_stats"}

\* C7: when a read operation's request is answered 200 with raw text, no
\* failure is raised; list_articles and search_articles report no articles.
C7_TextTolerated ==
    (/\ pc = "done" /\ op \in ReadOps /\ netlog # <<>>
     /\ netlog[Len(netlog)].resp.status = 200
     /\ ~netlog[Len(netlog)].resp.json) =>
        /\ exc = "none"
        /\ result.head # ErrorPrefix(op)
        /\ op = "list_articles" => result.head = "No articles found"
        /\ op = "search_articles" => result.head = "No articles found matching"

\* the identifier of a category entry: the string itself, or the id field
Identifier(cat) == IF cat.isdict THEN cat.id ELSE cat.s
\* s holds sub at some offset
HasSubstring(s, sub) ==
    \E k \in 0..Len(s) : k + Len(sub) <= Len(s) /\ SubSeq(s, k + 1, k + Len(sub)) = sub

\* C8: is_read is true exactly when some category entry's identifier holds
\* "state/com.google/read"; labels do not count, no categories means unread.
C8_IsReadIffMark ==
    pstage \in {"parsed", "formatted"} =>
        (pout.article.is_read <=>
            \E i \in DOMAIN pin.categories :
                HasSubstring(Identifier(pin.categories[i]), READ_MARK))

\* C8 witness: an object entry with the read id, after an entry whose label
\* alone holds the mark: read
C8_Witness ==
    /\ pstage = "parsed"
    /\ pin.categories = <<CatObj(LABEL_TECH, READ_TAG), CatObj(READ_TAG, LABEL_READ)>>
    /\ pout.article.is_read

RECURSIVE Flatten(_)
Flatten(chunks) == IF chunks = <<>> THEN <<>> ELSE chunks[1] \o Flatten(Tail(chunks))

\* C9: the chunks of chunk_list(s, c), c >= 1, joined in order are s; each
\* has 1..c elements and all but the last have c; so no chunks for the empty
\* list and one chunk, s itself, when c >= len(s) > 0.
C9_ChunkList ==
    pstage = "chunked" =>
        /\ Flatten(pout) = pin.lst
        /\ \A i \in DOMAIN pout :
             /\ Len(pout[i]) \in 1..pin.c
             /\ i < Len(pout) => Len(pout[i]) = pin.c
        /\ pin.lst = <<>> => pout = <<>>
        /\ (pin.c >= Len(pin.lst) /\ Len(pin.lst) > 0) => pout = <<pin.lst>>

\* C9 witness: five elements in chunks of two
C9_Witness ==
    /\ pstage = "chunked"
    /\ pin = [lst |-> <<1, 2, 3, 4, 5>>, c |-> 2]
    /\ pout = <<<<1, 2>>, <<3, 4>>, <<5>>>>

\* s ends with suf
EndsWith(s, suf) == Len(s) >= Len(suf) /\ SubSeq(s, Len(s) - Len(suf) + 1, Len(s)) = suf
\* the entry names the read state (".../state/com.google/read")
IsReadStateEntry(cat) == EndsWith(Identifier(cat), READ_MARK)

\* C10: an article of a listing whose item carries no read-state identifier
\* (only others, such as the reading-list one) is shown with the unread glyph.
C10_OnlyReadTagIsRead ==
    (/\ pc = "done" /\ op = "list_articles" /\ exc = "none" /\ netlog # <<>>
     /\ netlog[1].resp.val.t = "dict") =>
        LET items == netlog[1].resp.val.payload
        IN  \A i \in DOMAIN items :
              (\A j \in DOMAIN items[i].categories :
                    ~IsReadStateEntry(items[i].categories[j]))
                => (i \in DOMAIN result.lines /\ result.lines[i] = GLYPH_UNREAD)


\* C11: a listing or search called with a days value, 0 included, sends
\* ot = now - days * 86400; ot is absent only when no days value was given.
C11_FloorForEveryDays ==
    (/\ pc = "done" /\ op \in {"list_articles", "search_articles"}
     /\ netlog # <<>>) =>
        IF args.hasDays
        THEN netlog[1].hasOt /\ netlog[1].ot = netlog[1].t - args.days * DAY
        ELSE ~netlog[1].hasOt

\* the body section the item should be given: its content when present and
\* not empty, else its summary when not empty, else the placeholder
ExpectedBody(item) ==
    IF item.hasContent /\ item.content # "" THEN <<"---", item.content>>
    ELSE IF item.hasSummary /\ item.summary # "" THEN <<"---", item.summary>>
    ELSE <<"---", "No content available for this article.">>

\* C12: get_content whose fetch succeeded returns the not-found message with
\* the requested id when there is no item, and otherwise the header lines
\* followed by a body section: content, else summary, else the placeholder.
C12_FoundItemHasBody ==
    (pc = "done" /\ op = "get_content" /\ exc = "none") =>
        LET val   == netlog[1].resp.val
            items == IF val.haskey THEN val.payload ELSE <<>>
        IN  /\ result.kind = "text"
            /\ IF items = <<>>
               THEN /\ result.head = "Article with ID {id} not found."
                    /\ result.k = args.article_id
               ELSE /\ Len(result.lines) = 3
                    /\ SubSeq(result.lines, 2, Len(result.lines)) = ExpectedBody(items[1])

====
